---- MODULE Spec2Model ----
(***************************************************************************)
(* Model of the AQUADOKS sales bot: the tool-orchestration loop            *)
(* (src/bot/yandex_gpt.py), the tool executor (src/bot/tools.py) and the   *)
(* order transaction on the relational store (src/db/database.py).         *)
(*                                                                         *)
(* The store is PostgreSQL under its default READ COMMITTED isolation:     *)
(* `inv`, `customers`, `orders`, `order_items` hold the committed rows,    *)
(* the only rows other operations can observe; a transaction keeps its     *)
(* uncommitted row versions in `txInv` and its uncommitted inserts in its  *)
(* frame, and holds the row locks of the inventory rows it has updated     *)
(* until it commits or rolls back.                                         *)
(*                                                                         *)
(* Cyrillic text of the source is transliterated to ASCII letters.         *)
(***************************************************************************)
EXTENDS Integers, Sequences, FiniteSets, TLC

(***************************************************************************)
(* Bounds of the model.                                                    *)
(***************************************************************************)
NumTurns == 2          \* concurrent conversational turns
MaxBatch == 2          \* tool calls in one provider response
MaxLongRounds == 6     \* tool batches the provider asks for in a turn alone
MaxShortRounds == 1    \* tool batches it asks for in each of concurrent turns
MaxCreateCalls == 2    \* create_order calls the provider asks for, in total
StockA == 3            \* initial stock_packs of product 1
StockB == 2            \* initial stock_packs of product 2
PriceA == 1000         \* price_per_pack of product 1
PriceB == 2500         \* price_per_pack of product 2
MaxTotal == 50000      \* largest order total of the pricing check
MaxItems == 3          \* longest item list of the preview check
MaxQty == 3            \* largest quantity of an item of the preview check

Turns == 1..NumTurns

(***************************************************************************)
(* Catalog (seed data of the store; read-only to the bot).                 *)
(***************************************************************************)
ProductIds == {1, 2}
SkuOf == <<"0_5L", "1L">>
Price == <<PriceA, PriceB>>
InitStock == <<StockA, StockB>>
UnknownSku == "UNKNOWN"

\* products p JOIN inventory i ... WHERE p.sku = sku: the matching product ids
ProductsBySku(sku) == {p \in ProductIds : SkuOf[p] = sku}

(***************************************************************************)
(* Strings are sequences of one-letter strings, so that str.lower() and    *)
(* the substring test of the city predicate are computed, not assumed.     *)
(***************************************************************************)
LowerChar(c) ==
    CASE c = "S" -> "s" [] c = "P" -> "p" [] c = "B" -> "b"
      [] c = "M" -> "m" [] c = "T" -> "t" [] OTHER -> c

Lower(s) == [i \in 1..Len(s) |-> LowerChar(s[i])]

\* Python's `needle in hay`
Contains(hay, needle) ==
    \E i \in 0..(Len(hay) - Len(needle)) :
        \A j \in 1..Len(needle) : hay[i + j] = needle[j]

Peterburg == <<"p","e","t","e","r","b","u","r","g">>
Spb == <<"s","p","b">>

\* the city check left out
CityAllowedAny(city) == TRUE

CityAllowed(city) ==
    Contains(Lower(city), Peterburg) \/ Contains(Lower(city), Spb)

(***************************************************************************)
(* int(subtotal * 0.1): the IEEE-754 double product, then truncation.      *)
(* The double 0.1 is TenthSignificand / 2^55 with TenthSignificand =       *)
(* 3602879701896397, held here as five base-2048 limbs, least significant  *)
(* first (2048^5 = 2^55).  s * 0.1 is computed exactly limb by limb, then  *)
(* rounded to 53 significant bits (round-half-to-even), then truncated by  *)
(* int().  Exact for 0 <= s < 2^20.                                        *)
(***************************************************************************)
LimbBase == 2048
TenthLimbs == <<1229, 409, 819, 1638, 204>>

RECURSIVE MulCarry(_, _)
\* carry out of limb i of s * TenthSignificand
MulCarry(s, i) ==
    IF i = 0 THEN 0 ELSE (s * TenthLimbs[i] + MulCarry(s, i - 1)) \div LimbBase

\* limb i of s * TenthSignificand
MulDigit(s, i) == (s * TenthLimbs[i] + MulCarry(s, i - 1)) % LimbBase

RECURSIVE BitLen(_)
BitLen(n) == IF n = 0 THEN 0 ELSE 1 + BitLen(n \div 2)

\* the exact product is IntPart + fraction, fraction = limbs 1..5 / 2^55
IntPart(s) == MulCarry(s, 5)

\* rounding to 53 significant bits carries into the integer part iff the
\* fraction is at least 1 - ulp/2, ulp = 2^(BitLen(IntPart) - 53)
RoundsUp(s) ==
    /\ MulDigit(s, 5) = LimbBase - 1
    /\ MulDigit(s, 4) = LimbBase - 1
    /\ MulDigit(s, 3) = LimbBase - 1
    /\ MulDigit(s, 2) * LimbBase + MulDigit(s, 1)
          >= LimbBase * LimbBase - 2 ^ (BitLen(IntPart(s)) + 1)

\* int(round(subtotal * 0.1)) in place of int(subtotal * 0.1)
PyRoundTenth(s) == (s + 5) \div 10

PyIntTenth(s) == IntPart(s) + (IF RoundsUp(s) THEN 1 ELSE 0)

DiscountThreshold == 5000

\* tool_calculate_order, the discount branch
CalcTotals(subtotal) ==
    IF subtotal >= DiscountThreshold
    THEN [discount |-> PyIntTenth(subtotal),
          final |-> subtotal - PyIntTenth(subtotal)]
    ELSE [discount |-> 0, final |-> subtotal]

\* tool_create_order, discount and final_amount
OrderTotals(subtotal) ==
    LET discount == IF subtotal >= DiscountThreshold
                    THEN PyIntTenth(subtotal) ELSE 0
    IN  [discount |-> discount, final |-> subtotal - discount]

(***************************************************************************)
(* Tool results.  A result is the string the tool returns, kept as the     *)
(* kind of sentence and the values formatted into it.                      *)
(***************************************************************************)
Result(kind) ==
    [kind |-> kind, sku |-> "", available |-> 0, qty |-> 0,
     subtotal |-> 0, discount |-> 0, final |-> 0, order_id |-> 0,
     lines |-> <<>>, exc |-> ""]

\* what str(None) formats to, and no sku of the catalog
NoneSku == "None"

\* item.get("sku"): None when the item has no sku
ItemSku(item) == IF "sku" \in DOMAIN item THEN item.sku ELSE NoneSku

\* item.get("qty", 0)
ItemQty(item) == IF "qty" \in DOMAIN item THEN item.qty ELSE 0

\* the values a failure string of create_order spells out: the pre-check's
\* sentence names the sku, the available and the requested quantity; the
\* ValueError of the reservation, behind the executor's prefix, the sku only
Reports(r) ==
    IF r.kind = "insufficient" THEN {"sku", "available", "qty"}
    ELSE IF r.kind = "product_not_found" THEN {"sku"}
    ELSE IF r.kind = "error" /\ r.exc = "ValueError" THEN {"sku"}
    ELSE {}

\* price_per_pack of the product with this sku, 0 when prices.get(sku) is None
PriceBySku(sku) ==
    IF ProductsBySku(sku) = {} THEN 0
    ELSE Price[CHOOSE p \in ProductsBySku(sku) : TRUE]

RECURSIVE CalcLinesBreak(_, _)
\* `break` where the loop has `continue`
CalcLinesBreak(items, k) ==
    IF k > Len(items) THEN <<>>
    ELSE LET sku == ItemSku(items[k])
             qty == ItemQty(items[k])
             price == PriceBySku(sku)
         IN  IF price = 0
             THEN <<[sku |-> sku, found |-> FALSE, qty |-> qty, total |-> 0]>>
             ELSE <<[sku |-> sku, found |-> TRUE, qty |-> qty,
                     total |-> price * qty]>> \o CalcLinesBreak(items, k + 1)

RECURSIVE CalcLines(_, _)
\* the per-item loop of tool_calculate_order from item k on: one line per item
CalcLines(items, k) ==
    IF k > Len(items) THEN <<>>
    ELSE LET sku == ItemSku(items[k])
             qty == ItemQty(items[k])
             price == PriceBySku(sku)
             line == IF price = 0
                     THEN [sku |-> sku, found |-> FALSE, qty |-> qty, total |-> 0]
                     ELSE [sku |-> sku, found |-> TRUE, qty |-> qty,
                           total |-> price * qty]
         IN  <<line>> \o CalcLines(items, k + 1)

RECURSIVE SumTotals(_, _)
SumTotals(lines, k) ==
    IF k > Len(lines) THEN 0 ELSE lines[k].total + SumTotals(lines, k + 1)

tool_calculate_order(items) ==
    IF items = <<>> THEN Result("empty")
    ELSE LET lines == CalcLines(items, 1)
             subtotal == SumTotals(lines, 1)
             t == CalcTotals(subtotal)
         IN  [Result("calc") EXCEPT !.lines = lines, !.subtotal = subtotal,
                                    !.discount = t.discount, !.final = t.final]

RECURSIVE Precheck(_, _, _, _, _)
\* the availability loop of tool_create_order from item k on; avail is the
\* `available` column read before the loop, acc the order_items so far
Precheck(items, avail, k, acc, subtotal) ==
    IF k > Len(items)
    THEN [ok |-> TRUE, result |-> Result("none"), order_items |-> acc,
          subtotal |-> subtotal]
    ELSE LET sku == ItemSku(items[k])
             qty == ItemQty(items[k])
             prods == ProductsBySku(sku)
         IN  IF prods = {}
             THEN [ok |-> FALSE,
                   result |-> [Result("product_not_found") EXCEPT !.sku = sku],
                   order_items |-> <<>>, subtotal |-> 0]
             ELSE LET p == CHOOSE q \in prods : TRUE
                  IN  IF avail[p] < qty
                      THEN [ok |-> FALSE,
                            result |-> [Result("insufficient") EXCEPT
                                          !.sku = sku, !.available = avail[p],
                                          !.qty = qty],
                            order_items |-> <<>>, subtotal |-> 0]
                      ELSE Precheck(items, avail, k + 1,
                               Append(acc, [product_id |-> p, sku |-> sku,
                                            qty |-> qty, price |-> Price[p],
                                            subtotal |-> Price[p] * qty]),
                               subtotal + Price[p] * qty)

(***************************************************************************)
(* Inputs: the tool calls the provider may ask for.                        *)
(***************************************************************************)
CityPeterburg == <<"S","a","n","k","t","-","P","e","t","e","r","b","u","r","g">>
CitySPB == <<"S","P","B">>
CityMoskva == <<"M","o","s","k","v","a">>

Item(sku, qty) == [sku |-> sku, qty |-> qty]

ToolCall(name, sku, city, phone, items) ==
    [name |-> name, sku |-> sku, city |-> city, phone |-> phone, items |-> items]

GetProductsCalls == {ToolCall("get_products", "", <<>>, "", <<>>)}

CheckStockCalls ==
    {ToolCall("check_stock", sku, <<>>, "", <<>>) : sku \in {"0_5L", UnknownSku}}

CalculateOrderCalls ==
    {ToolCall("calculate_order", "", <<>>, "", items) :
        items \in {<<>>,
                   <<Item("0_5L", 2)>>,
                   <<Item("1L", 2), Item(UnknownSku, 1)>>}}

CreateOrderCalls ==
    {ToolCall("create_order", "", CityPeterburg, "+7911", <<Item("0_5L", 2)>>),
     ToolCall("create_order", "", CitySPB, "+7921", <<Item("0_5L", 1), Item("1L", 2)>>),
     ToolCall("create_order", "", CityPeterburg, "+7911", <<Item("1L", 1), Item("0_5L", 2)>>),
     ToolCall("create_order", "", CityPeterburg, "+7911", <<Item("0_5L", -1)>>),
     ToolCall("create_order", "", CityPeterburg, "+7921", <<Item(UnknownSku, 1)>>),
     ToolCall("create_order", "", CityPeterburg, "+7911", <<[sku |-> "1L"]>>),
     ToolCall("create_order", "", CityPeterburg, "+7911", <<>>),
     ToolCall("create_order", "", CityMoskva, "+7921", <<Item("0_5L", 1)>>)}

\* a create_order call whose arguments have no `items` key
CreateOrderNoItems ==
    {[name |-> "create_order", sku |-> "", city |-> CityPeterburg,
      phone |-> "+7911"]}

\* args.get("items", [])
ArgItems(args) == IF "items" \in DOMAIN args THEN args.items ELSE <<>>

UnknownCalls == {ToolCall("send_email", "", <<>>, "", <<>>)}

ToolCalls ==
    GetProductsCalls \cup CheckStockCalls \cup CalculateOrderCalls
        \cup CreateOrderCalls \cup UnknownCalls

\* what message.get("text", "") can be
Texts == {"", "reply"}

\* a provider response: toolCallList present or not, its number of calls, text
Responses ==
    {r \in [hasList : BOOLEAN, n : 0..MaxBatch, text : Texts] :
        ~r.hasList => r.n = 0}

(***************************************************************************)
(* State.                                                                  *)
(***************************************************************************)
VARIABLES
    inv,          \* committed inventory rows: product_id -> [stock, reserved]
    lock,         \* row lock of each inventory row: a turn, or 0
    txInv,        \* per turn: its uncommitted versions of the rows it locked
    customers,    \* committed customers rows
    orders,       \* committed orders rows
    order_items,  \* committed order_items rows
    custSeq,      \* customers.id sequence
    orderSeq,     \* orders.id sequence
    requests,     \* history: order id -> the items its create_order asked
                  \* for, and the turn and the batch of the turn it ran in
    pc,           \* per turn: where chat() and the tool it runs are suspended
    roundNum,     \* per turn: round_num of chat()
    calls,        \* per turn: provider calls made (history)
    response,     \* per turn: the provider response chat() is about to examine
    messages,     \* per turn: the messages list, one [role, kind, items] per
                  \* entry; items is the text of a text entry, or the batch
                  \* positions of the tool calls or tool results it holds
    batchLen,     \* per turn: len(tool_calls) of the current round
    idx,          \* per turn: position in tool_calls
    tool_results, \* per turn: tool_results of the current round: the batch
                  \* position of the call each result belongs to
    answer,       \* per turn: what chat() returned
    frame,        \* per turn: the tool call in progress, its locals, its
                  \* result, and whether it inserted its customer (history)
    issued,       \* create_order calls dispatched so far, over all turns
    asks,         \* per turn: tool batches the provider will still ask for
    pricing,      \* the input and the output of a tool's arithmetic run on
                  \* its own: an order total and the totals the two tools
                  \* compute for it, or an item list and its preview
    chat_messages,\* the chat_messages rows of the session, oldest first
    history,      \* per turn: the history its handler fetched
    replies,      \* per turn: the replies its handler sent to the user
    authenticated_users,  \* admin bot: the ids of the authenticated users
    upd,          \* admin bot: per update, its sender, its text or command,
                  \* and where its handler is
    agent_prompt  \* the content of agent_prompt.md

dbVars == <<inv, lock, txInv, customers, orders, order_items, custSeq, orderSeq,
            requests>>
committedVars == <<inv, customers, orders, order_items>>
loopVars == <<pc, roundNum, calls, response, messages, batchLen, idx,
              tool_results, answer, frame>>
envVars == <<issued, asks>>
vars == <<inv, lock, txInv, customers, orders, order_items, custSeq, orderSeq,
          requests, pc, roundNum, calls, response, messages, batchLen, idx,
          tool_results, answer, frame, issued, asks, pricing, chat_messages,
          history, replies, authenticated_users, upd, agent_prompt>>
handlerVars == <<chat_messages, history, replies>>
adminVars == <<authenticated_users, upd, agent_prompt>>
sideVars == <<pricing, chat_messages, history, replies, authenticated_users,
              upd, agent_prompt>>

\* the updates the admin bot receives, in the order of their arrival
MaxUpdates == 4
Updates == 1..MaxUpdates

NoResponse == [hasList |-> FALSE, n |-> 0, text |-> ""]

MAX_TOOL_ROUNDS == 5
Fallback == "Izvinite, ne udalos obrabotat zapros. Poprobujte pereformulirovat."

NoRow == [stock |-> 0, reserved |-> 0]
NoFrame ==
    [call |-> ToolCall("", "", <<>>, "", <<>>), customer_id |-> 0,
     new_customer |-> FALSE,
     order_items |-> <<>>, subtotal |-> 0, discount |-> 0, final |-> 0,
     i |-> 0, order_id |-> 0, result |-> Result("none")]

\* an update the admin bot has not received
NoUpdate == [user |-> 0, text |-> <<>>, doc |-> "", pc |-> "none"]

\* the admin bot after its start, with no update received
AdminIdle ==
    /\ authenticated_users = {}
    /\ upd = [a \in Updates |-> NoUpdate]
    /\ agent_prompt = "initial"

\* texts are kept as tuples: the system prompt, the text of the inbound
\* message of turn t
SystemPrompt == <<"system_prompt">>
UserText(t) == <<"inbound", t>>

\* one entry of `messages`
Message(role, kind, items) == [role |-> role, kind |-> kind, items |-> items]

\* chat(), lines 80-90: system prompt, history, the user message
BuildMessages(user_message, hist) ==
    <<Message("system", "text", SystemPrompt)>>
        \o [k \in 1..Len(hist) |->
               Message(hist[k].role, "text", hist[k].content)]
        \o <<Message("user", "text", user_message)>>

\* the inbound messages and the provider's behaviour: one turn alone, in
\* which the provider goes on asking for tools, or concurrent turns
Scenarios ==
    {[turns |-> {1}, rounds |-> MaxLongRounds],
     [turns |-> Turns, rounds |-> MaxShortRounds]}

NoPricing == [subtotal |-> 0, done |-> FALSE,
              calc |-> [discount |-> 0, final |-> 0],
              order |-> [discount |-> 0, final |-> 0]]

Init ==
    /\ pricing = NoPricing
    /\ chat_messages = <<>>
    /\ history = [t \in Turns |-> <<>>]
    /\ replies = [t \in Turns |-> <<>>]
    /\ AdminIdle
    /\ inv = [p \in ProductIds |-> [stock |-> InitStock[p], reserved |-> 0]]
    /\ lock = [p \in ProductIds |-> 0]
    /\ txInv = [t \in Turns |-> [p \in ProductIds |-> NoRow]]
    /\ customers = {}
    /\ orders = {}
    /\ order_items = {}
    /\ custSeq = 0
    /\ orderSeq = 0
    /\ requests = {}
    /\ \E sc \in Scenarios :
          /\ pc = [t \in Turns |-> IF t \in sc.turns THEN "idle" ELSE "absent"]
          /\ asks = [t \in Turns |-> IF t \in sc.turns THEN sc.rounds ELSE 0]
    /\ roundNum = [t \in Turns |-> 0]
    /\ calls = [t \in Turns |-> 0]
    /\ response = [t \in Turns |-> NoResponse]
    /\ messages = [t \in Turns |-> <<>>]
    /\ batchLen = [t \in Turns |-> 0]
    /\ idx = [t \in Turns |-> 0]
    /\ tool_results = [t \in Turns |-> <<>>]
    /\ answer = [t \in Turns |-> ""]
    /\ frame = [t \in Turns |-> NoFrame]
    /\ issued = 0

(***************************************************************************)
(* The orchestration loop, YandexGPT.chat.                                 *)
(***************************************************************************)
\* range(MAX_TOOL_ROUNDS - 1): the loop gives up one round early
InRangeShort(r) == r < MAX_TOOL_ROUNDS - 1

\* range(MAX_TOOL_ROUNDS + 1)
InRangeInclusive(r) == r <= MAX_TOOL_ROUNDS

\* `for round_num in range(MAX_TOOL_ROUNDS)`: is there a round r
InRange(r) == r < MAX_TOOL_ROUNDS

\* messages, response and tool_results kept as attributes of the one
\* YandexGPT instance: a chat() that ends resets them for every turn
LocalsGoneShared(t) ==
    /\ messages' = [u \in Turns |-> <<>>]
    /\ response' = [u \in Turns |-> NoResponse]
    /\ batchLen' = [u \in Turns |-> 0]
    /\ idx' = [u \in Turns |-> 0]
    /\ tool_results' = [u \in Turns |-> <<>>]
    /\ frame' = [frame EXCEPT ![t] = NoFrame]

\* chat() has returned or raised: its locals are gone
LocalsGone(t) ==
    /\ messages' = [messages EXCEPT ![t] = <<>>]
    /\ response' = [response EXCEPT ![t] = NoResponse]
    /\ batchLen' = [batchLen EXCEPT ![t] = 0]
    /\ idx' = [idx EXCEPT ![t] = 0]
    /\ tool_results' = [tool_results EXCEPT ![t] = <<>>]
    /\ frame' = [frame EXCEPT ![t] = NoFrame]

\* the handler calls chat(user_text, history); chat builds `messages` and
\* posts its first request
StartTurn(t) ==
    /\ pc[t] = "idle"
    /\ pc' = [pc EXCEPT ![t] = "request"]
    /\ calls' = [calls EXCEPT ![t] = @ + 1]
    /\ messages' = [messages EXCEPT ![t] = BuildMessages(UserText(t), history[t])]
    /\ UNCHANGED <<dbVars, roundNum, response, batchLen, idx, tool_results,
                   answer, frame, issued, asks>>
    /\ UNCHANGED sideVars

\* the provider answers the post of line 110
ProviderResponds(t) ==
    /\ pc[t] = "request"
    /\ \E resp \in Responses :
          /\ resp.n > 0 => asks[t] > 0
          /\ asks' = [asks EXCEPT ![t] = IF resp.n > 0 THEN @ - 1 ELSE @]
          /\ response' = [response EXCEPT ![t] = resp]
    /\ pc' = [pc EXCEPT ![t] = "responded"]
    /\ UNCHANGED <<dbVars, roundNum, calls, messages, batchLen, idx,
                   tool_results, answer, frame, issued>>
    /\ UNCHANGED sideVars

\* the `if not tool_calls` test left out
HasToolCallList(resp) == resp.hasList

\* lines 122-124: does the message ask for tool calls
HasToolCalls(resp) == resp.hasList /\ resp.n > 0

\* lines 114-129 and 155-156: chat() examines the response
HandleResponse(t) ==
    /\ pc[t] = "responded"
    /\ IF HasToolCalls(response[t])
       THEN /\ messages' = [messages EXCEPT ![t] =
                  Append(@, Message("assistant", "toolCallList",
                                    [k \in 1..response[t].n |-> k]))]
            /\ batchLen' = [batchLen EXCEPT ![t] = response[t].n]
            /\ idx' = [idx EXCEPT ![t] = 1]
            /\ tool_results' = [tool_results EXCEPT ![t] = <<>>]
            /\ response' = [response EXCEPT ![t] = NoResponse]
            /\ pc' = [pc EXCEPT ![t] = "dispatch"]
            /\ UNCHANGED <<answer, frame>>
       ELSE /\ answer' = [answer EXCEPT ![t] = response[t].text]
            /\ pc' = [pc EXCEPT ![t] = "done"]
            /\ LocalsGone(t)
    /\ UNCHANGED <<dbVars, roundNum, calls, issued, asks>>
    /\ UNCHANGED sideVars

\* the except branch posts again instead of re-raising
ProviderFailsRetried(t) ==
    /\ pc[t] = "request"
    /\ calls[t] < MAX_TOOL_ROUNDS
    /\ calls' = [calls EXCEPT ![t] = @ + 1]
    /\ UNCHANGED <<dbVars, pc, roundNum, response, messages, batchLen, idx,
                   tool_results, answer, frame, issued, asks>>
    /\ UNCHANGED sideVars

\* lines 110-112, 158-163: the post fails (status, payload, timeout); re-raised
ProviderFails(t) ==
    /\ pc[t] = "request"
    /\ pc' = [pc EXCEPT ![t] = "raised"]
    /\ LocalsGone(t)
    /\ UNCHANGED <<dbVars, roundNum, calls, answer, issued, asks>>
    /\ UNCHANGED sideVars

\* execute_tool returns `result` for `call` to the loop, which is suspended at
\* line 139
ToolReturns(t, call, result) ==
    /\ frame' = [frame EXCEPT ![t] = [NoFrame EXCEPT !.call = call,
                                                     !.result = result]]
    /\ pc' = [pc EXCEPT ![t] = "returned"]
    /\ UNCHANGED <<roundNum, messages, response, batchLen, idx, tool_results,
                   answer>>

\* tool_results.insert(0, ...)
PrependResult(results, k) == <<k>> \o results

\* lines 142-147: tool_results.append of the result of the call at position k
AppendResult(results, k) == Append(results, k)

\* lines 140-153 and 165-167: the result is appended to tool_results; after
\* the last call of the batch the results entry is appended to messages and
\* the for loop goes to its next round or runs out
CollectResult(t) ==
    /\ pc[t] = "returned"
    /\ LET results == AppendResult(tool_results[t], idx[t])
       IN  IF idx[t] < batchLen[t]
           THEN /\ tool_results' = [tool_results EXCEPT ![t] = results]
                /\ idx' = [idx EXCEPT ![t] = @ + 1]
                /\ pc' = [pc EXCEPT ![t] = "dispatch"]
                /\ frame' = [frame EXCEPT ![t] = NoFrame]
                /\ UNCHANGED <<messages, response, batchLen, roundNum, calls,
                               answer>>
           ELSE /\ roundNum' = [roundNum EXCEPT ![t] = @ + 1]
                /\ IF InRange(roundNum[t] + 1)
                   THEN /\ messages' = [messages EXCEPT ![t] =
                              Append(@, Message("user", "toolResultList",
                                                results))]
                        /\ tool_results' = [tool_results EXCEPT ![t] = <<>>]
                        /\ batchLen' = [batchLen EXCEPT ![t] = 0]
                        /\ idx' = [idx EXCEPT ![t] = 0]
                        /\ response' = [response EXCEPT ![t] = NoResponse]
                        /\ calls' = [calls EXCEPT ![t] = @ + 1]
                        /\ pc' = [pc EXCEPT ![t] = "request"]
                        /\ frame' = [frame EXCEPT ![t] = NoFrame]
                        /\ UNCHANGED answer
                   ELSE /\ answer' = [answer EXCEPT ![t] = Fallback]
                        /\ pc' = [pc EXCEPT ![t] = "done"]
                        /\ LocalsGone(t)
                        /\ UNCHANGED calls
    /\ UNCHANGED <<dbVars, issued, asks>>
    /\ UNCHANGED sideVars

(***************************************************************************)
(* The tool executor, execute_tool.                                        *)
(***************************************************************************)
ExceptionClasses == {"ValueError", "PostgresError", "DeadlockDetectedError",
                     "UniqueViolationError"}

\* `except ValueError as e`
CatchesValueErrorOnly(exc) == exc = "ValueError"

\* `except Exception as e`: which exceptions of a handler the executor catches
Catches(exc) == exc \in ExceptionClasses

\* a handler raised exc: lines 106-108 turn it into a string; an exception
\* the executor does not catch leaves chat() through its `raise`
ToolRaises(t, call, exc, sku) ==
    IF Catches(exc)
    THEN ToolReturns(t, call, [Result("error") EXCEPT !.exc = exc, !.sku = sku])
    ELSE /\ pc' = [pc EXCEPT ![t] = "raised"]
         /\ LocalsGone(t)
         /\ UNCHANGED <<roundNum, answer>>

\* tool_get_products: one SELECT
ToolGetProducts(t) ==
    /\ pc[t] = "dispatch"
    /\ \E call \in GetProductsCalls :
          ToolReturns(t, call,
              [Result("products") EXCEPT !.lines =
                  [p \in ProductIds |->
                      [sku |-> SkuOf[p], price |-> Price[p],
                       available |-> inv[p].stock - inv[p].reserved]]])
    /\ UNCHANGED <<dbVars, calls, issued, asks>>
    /\ UNCHANGED sideVars

\* the `if not rows` test left out
tool_check_stock_unguarded(sku) ==
    [Result("stock") EXCEPT !.sku = sku]

\* tool_check_stock: one SELECT
tool_check_stock(sku) ==
    IF ProductsBySku(sku) = {}
    THEN [Result("stock_not_found") EXCEPT !.sku = sku]
    ELSE LET p == CHOOSE q \in ProductsBySku(sku) : TRUE
         IN  [Result("stock") EXCEPT !.sku = sku,
                 !.available = inv[p].stock - inv[p].reserved]

ToolCheckStock(t) ==
    /\ pc[t] = "dispatch"
    /\ \E call \in CheckStockCalls :
          ToolReturns(t, call, tool_check_stock(call.sku))
    /\ UNCHANGED <<dbVars, calls, issued, asks>>
    /\ UNCHANGED sideVars

\* the preview reserves the first item it prices
ToolCalculateOrderReserving(t) ==
    /\ pc[t] = "dispatch"
    /\ \E call \in CalculateOrderCalls :
          /\ ToolReturns(t, call, tool_calculate_order(call.items))
          /\ inv' = IF call.items # <<>> /\ ProductsBySku(ItemSku(call.items[1])) # {}
                    THEN LET p == CHOOSE q \in ProductsBySku(ItemSku(call.items[1])) : TRUE
                         IN  [inv EXCEPT ![p].reserved = @ + ItemQty(call.items[1])]
                    ELSE inv
    /\ UNCHANGED <<lock, txInv, customers, orders, order_items, custSeq,
                   orderSeq, requests, calls, issued, asks>>
    /\ UNCHANGED sideVars

\* tool_calculate_order: one SELECT of prices, then arithmetic
ToolCalculateOrder(t) ==
    /\ pc[t] = "dispatch"
    /\ \E call \in CalculateOrderCalls :
          ToolReturns(t, call, tool_calculate_order(call.items))
    /\ UNCHANGED <<dbVars, calls, issued, asks>>
    /\ UNCHANGED sideVars

\* execute_tool, the else branch: a name that is no tool
ToolUnknown(t) ==
    /\ pc[t] = "dispatch"
    /\ \E call \in UnknownCalls :
          ToolReturns(t, call, Result("unknown_function"))
    /\ UNCHANGED <<dbVars, calls, issued, asks>>
    /\ UNCHANGED sideVars

(***************************************************************************)
(* tool_create_order and Database.create_order.                            *)
(***************************************************************************)
\* the transaction of turn t ends: its row locks and row versions go
ReleaseLocks(t) ==
    /\ lock' = [p \in ProductIds |-> IF lock[p] = t THEN 0 ELSE lock[p]]
    /\ txInv' = [txInv EXCEPT ![t] = [p \in ProductIds |-> NoRow]]

\* the UPDATEs run outside a transaction: an exception undoes nothing
AfterRollbackKeeps(t) ==
    [p \in ProductIds |-> IF lock[p] = t THEN txInv[t][p] ELSE inv[p]]

\* `async with conn.transaction()` left by an exception: the committed
\* inventory after the rollback
AfterRollback(t) == inv

\* ROLLBACK of the transaction of turn t
Rollback(t) ==
    /\ ReleaseLocks(t)
    /\ inv' = AfterRollback(t)
    /\ UNCHANGED <<customers, orders, order_items, custSeq, orderSeq, requests>>

\* the `if not items` test left out
NotItemsSkipped(items) == FALSE

\* line 211, `not items`: the list is empty
NotItems(items) == items = <<>>

\* tool_create_order up to its first store answer: the city and items checks,
\* then the SELECT of get_or_create_customer
ToolCreateOrder(t) ==
    /\ pc[t] = "dispatch"
    /\ issued < MaxCreateCalls
    /\ issued' = issued + 1
    /\ \E args \in CreateOrderCalls \cup CreateOrderNoItems :
        LET call == ToolCall(args.name, args.sku, args.city, args.phone,
                             ArgItems(args))
        IN
          IF ~CityAllowed(call.city)
          THEN ToolReturns(t, call, Result("unsupported_region"))
          ELSE IF NotItems(call.items)
          THEN ToolReturns(t, call, Result("empty"))
          ELSE LET found == {c \in customers : c.phone = call.phone}
               IN  /\ IF found # {}
                      THEN \E c \in found :
                              /\ frame' = [frame EXCEPT ![t] =
                                    [NoFrame EXCEPT !.call = call,
                                                    !.customer_id = c.id]]
                              /\ pc' = [pc EXCEPT ![t] = "co_products"]
                      ELSE /\ frame' = [frame EXCEPT ![t] =
                                 [NoFrame EXCEPT !.call = call]]
                           /\ pc' = [pc EXCEPT ![t] = "co_insert_customer"]
                   /\ UNCHANGED <<roundNum, messages, response, batchLen,
                                  idx, tool_results, answer>>
    /\ UNCHANGED <<dbVars, calls, asks>>
    /\ UNCHANGED sideVars

\* customers.phone is UNIQUE: may a row with this phone be inserted
PhoneFree(phone) == \A c \in customers : c.phone # phone

\* get_or_create_customer, the INSERT: its id is drawn from the sequence,
\* then the row is inserted unless a customer committed since the SELECT has
\* the phone, in which case the statement raises
InsertCustomer(t) ==
    /\ pc[t] = "co_insert_customer"
    /\ custSeq' = custSeq + 1
    /\ IF PhoneFree(frame[t].call.phone)
       THEN /\ customers' = customers \cup
                  {[id |-> custSeq + 1, phone |-> frame[t].call.phone,
                    city |-> frame[t].call.city]}
            /\ frame' = [frame EXCEPT ![t].customer_id = custSeq + 1,
                                      ![t].new_customer = TRUE]
            /\ pc' = [pc EXCEPT ![t] = "co_products"]
       ELSE /\ customers' = customers
            /\ ToolRaises(t, frame[t].call, "UniqueViolationError", "")
    /\ UNCHANGED <<inv, lock, txInv, orders, order_items, orderSeq, requests,
                   roundNum, calls, response, messages, batchLen, idx,
                   tool_results, answer, issued, asks>>
    /\ UNCHANGED sideVars

\* tool_create_order lines 218-255: the SELECT of the products with their
\* available quantity, the availability loop and the totals
ReadProducts(t) ==
    /\ pc[t] = "co_products"
    /\ LET avail == [p \in ProductIds |-> inv[p].stock - inv[p].reserved]
           pre == Precheck(frame[t].call.items, avail, 1, <<>>, 0)
           tot == OrderTotals(pre.subtotal)
       IN  IF ~pre.ok
           THEN ToolReturns(t, frame[t].call, pre.result)
           ELSE /\ frame' = [frame EXCEPT ![t] =
                      [@ EXCEPT !.order_items = pre.order_items,
                                !.subtotal = pre.subtotal,
                                !.discount = tot.discount,
                                !.final = tot.final,
                                !.i = 1]]
                /\ pc' = [pc EXCEPT ![t] = "tx_reserve"]
                /\ UNCHANGED <<roundNum, messages, response, batchLen, idx,
                               tool_results, answer>>
    /\ UNCHANGED <<dbVars, calls, issued, asks>>
    /\ UNCHANGED sideVars

\* the UPDATE without its availability condition
ReserveGuardAlways(row, qty) == TRUE

\* the WHERE clause of the reservation UPDATE on one inventory row
ReserveGuard(row, qty) == row.stock - row.reserved >= qty

\* the item the transaction of turn t reserves next
NextItem(t) == frame[t].order_items[frame[t].i]

\* the row version the transaction of turn t sees: its own, or the committed
Visible(t, p) == IF lock[p] = t THEN txInv[t][p] ELSE inv[p]

\* the UPDATE of turn t waits for the row lock another transaction holds (a
\* row whose committed version fails the WHERE clause is skipped, not awaited)
Waiting(t) ==
    /\ pc[t] = "tx_reserve"
    /\ lock[NextItem(t).product_id] \notin {0, t}
    /\ ReserveGuard(inv[NextItem(t).product_id], NextItem(t).qty)

\* Database.create_order lines 187-200: the guarded UPDATE for one item
Reserve(t) ==
    /\ pc[t] = "tx_reserve"
    /\ ~Waiting(t)
    /\ LET item == NextItem(t)
           p == item.product_id
           row == Visible(t, p)
       IN  IF lock[p] \in {0, t} /\ ReserveGuard(row, item.qty)
           THEN /\ txInv' = [txInv EXCEPT ![t][p] =
                      [row EXCEPT !.reserved = @ + item.qty]]
                /\ lock' = [lock EXCEPT ![p] = t]
                /\ frame' = [frame EXCEPT ![t].i = @ + 1]
                /\ pc' = [pc EXCEPT ![t] =
                      IF frame[t].i < Len(frame[t].order_items)
                      THEN "tx_reserve" ELSE "tx_insert"]
                /\ UNCHANGED <<inv, customers, orders, order_items, custSeq,
                               orderSeq, requests, roundNum, messages, response,
                               batchLen, idx, tool_results, answer>>
           ELSE /\ Rollback(t)
                /\ ToolRaises(t, frame[t].call, "ValueError", item.sku)
    /\ UNCHANGED <<calls, issued, asks>>
    /\ UNCHANGED sideVars

\* lines 203-235: INSERT of the order (its id comes from the sequence) and of
\* its items; the rows stay uncommitted, in the frame, until Commit
PersistOrder(t) ==
    /\ pc[t] = "tx_insert"
    /\ orderSeq' = orderSeq + 1
    /\ frame' = [frame EXCEPT ![t].order_id = orderSeq + 1]
    /\ pc' = [pc EXCEPT ![t] = "tx_deduct"]
    /\ UNCHANGED <<inv, lock, txInv, customers, orders, order_items, custSeq,
                   requests, roundNum, calls, response, messages, batchLen, idx,
                   tool_results, answer, issued, asks>>
    /\ UNCHANGED sideVars

RECURSIVE DeductStockOnly(_, _, _)
\* the deduction UPDATE without `reserved_packs = reserved_packs - $2`
DeductStockOnly(rows, items, k) ==
    IF k > Len(items) THEN rows
    ELSE LET p == items[k].product_id
         IN  DeductStockOnly([rows EXCEPT ![p].stock = @ - items[k].qty],
                             items, k + 1)

RECURSIVE DeductReservedOnly(_, _, _)
\* the deduction UPDATE without `stock_packs = stock_packs - $2`
DeductReservedOnly(rows, items, k) ==
    IF k > Len(items) THEN rows
    ELSE LET p == items[k].product_id
         IN  DeductReservedOnly([rows EXCEPT ![p].reserved = @ - items[k].qty],
                                items, k + 1)

RECURSIVE DeductFrom(_, _, _)
\* lines 238-248: the deduction UPDATEs for the items from k on
DeductFrom(rows, items, k) ==
    IF k > Len(items) THEN rows
    ELSE LET p == items[k].product_id
         IN  DeductFrom([rows EXCEPT ![p] =
                            [stock |-> @.stock - items[k].qty,
                             reserved |-> @.reserved - items[k].qty]],
                        items, k + 1)

Deduct(t) ==
    /\ pc[t] = "tx_deduct"
    /\ txInv' = [txInv EXCEPT ![t] = DeductFrom(@, frame[t].order_items, 1)]
    /\ pc' = [pc EXCEPT ![t] = "tx_commit"]
    /\ UNCHANGED <<inv, lock, customers, orders, order_items, custSeq, orderSeq,
                   requests, roundNum, calls, response, messages, batchLen, idx,
                   tool_results, answer, frame, issued, asks>>
    /\ UNCHANGED sideVars

\* item["price"] passed where item["subtotal"] belongs
ItemRowsUnitPrice(f) ==
    {[order_id |-> f.order_id, line |-> k,
      product_id |-> f.order_items[k].product_id,
      sku |-> f.order_items[k].sku,
      qty_packs |-> f.order_items[k].qty,
      price_per_pack |-> f.order_items[k].price,
      subtotal |-> f.order_items[k].price] : k \in 1..Len(f.order_items)}

\* the rows of order_items the transaction inserted
ItemRows(f) ==
    {[order_id |-> f.order_id, line |-> k,
      product_id |-> f.order_items[k].product_id,
      sku |-> f.order_items[k].sku,
      qty_packs |-> f.order_items[k].qty,
      price_per_pack |-> f.order_items[k].price,
      subtotal |-> f.order_items[k].subtotal] : k \in 1..Len(f.order_items)}

\* the transaction block is left normally: COMMIT; tool_create_order returns
Commit(t) ==
    /\ pc[t] = "tx_commit"
    /\ inv' = [p \in ProductIds |-> IF lock[p] = t THEN txInv[t][p] ELSE inv[p]]
    /\ ReleaseLocks(t)
    /\ orders' = orders \cup
          {[id |-> frame[t].order_id, customer_id |-> frame[t].customer_id,
            channel |-> "telegram", city |-> frame[t].call.city,
            total_amount |-> frame[t].subtotal,
            discount_amount |-> frame[t].discount,
            final_amount |-> frame[t].final]}
    /\ order_items' = order_items \cup ItemRows(frame[t])
    /\ requests' = requests \cup
          {[order_id |-> frame[t].order_id, items |-> frame[t].call.items,
            turn |-> t, batch |-> calls[t]]}
    /\ ToolReturns(t, frame[t].call,
          [Result("created") EXCEPT !.order_id = frame[t].order_id,
              !.subtotal = frame[t].subtotal, !.discount = frame[t].discount,
              !.final = frame[t].final])
    /\ UNCHANGED <<customers, custSeq, orderSeq, calls, issued, asks>>
    /\ UNCHANGED sideVars

InTransaction(t) == pc[t] \in {"tx_reserve", "tx_insert", "tx_deduct", "tx_commit"}

\* two transactions wait for each other's row lock: the store aborts one of
\* them with an error
DeadlockAbort(t) ==
    /\ Waiting(t)
    /\ \E u \in Turns \ {t} :
          /\ Waiting(u)
          /\ lock[NextItem(t).product_id] = u
          /\ lock[NextItem(u).product_id] = t
    /\ Rollback(t)
    /\ ToolRaises(t, frame[t].call, "DeadlockDetectedError", "")
    /\ UNCHANGED <<calls, issued, asks>>
    /\ UNCHANGED sideVars

\* a store operation of a create_order in progress fails: the statement
\* raises, or the connection is lost (for the store, a crash of the process
\* is the same event: it rolls the open transaction back)
StoreFails(t) ==
    /\ pc[t] \in {"co_insert_customer", "co_products"} \/ InTransaction(t)
    /\ Rollback(t)
    /\ ToolRaises(t, frame[t].call, "PostgresError", "")
    /\ UNCHANGED <<calls, issued, asks>>
    /\ UNCHANGED sideVars

\* the SELECT of a read-only tool fails
ReadFails(t) ==
    /\ pc[t] = "dispatch"
    /\ \E call \in GetProductsCalls \cup CheckStockCalls
                     \cup {c \in CalculateOrderCalls : c.items # <<>>} :
          ToolRaises(t, call, "PostgresError", "")
    /\ UNCHANGED <<dbVars, calls, issued, asks>>
    /\ UNCHANGED sideVars

Next ==
    \E t \in Turns :
        \/ StartTurn(t)
        \/ ProviderResponds(t)
        \/ HandleResponse(t)
        \/ ProviderFails(t)
        \/ CollectResult(t)
        \/ ToolGetProducts(t)
        \/ ToolCheckStock(t)
        \/ ToolCalculateOrder(t)
        \/ ToolUnknown(t)
        \/ ToolCreateOrder(t)
        \/ InsertCustomer(t)
        \/ ReadProducts(t)
        \/ Reserve(t)
        \/ PersistOrder(t)
        \/ Deduct(t)
        \/ Commit(t)
        \/ DeadlockAbort(t)
        \/ StoreFails(t)
        \/ ReadFails(t)

Spec == Init /\ [][Next]_vars

(***************************************************************************)
(* The chat handler, handle_message, around the loop: it logs the inbound  *)
(* message, fetches the history, calls chat(), replies and logs the reply. *)
(* The turns are messages of one chat, so they share one session.          *)
(***************************************************************************)
\* `limit=10` of the history fetch
HistoryLimit == 10

\* the longest session log a run starts with
MaxPrior == 11

\* one row of chat_messages
Row(role, content) == [role |-> role, content |-> content]

\* the k-th row logged before the run: user and assistant rows in turn
PriorRow(k) == Row(IF k % 2 = 1 THEN "user" ELSE "assistant", <<"prior", k>>)

\* the session logs a run starts with: a new session, a short one, one that
\* is longer than the history limit
PriorLogs == {[k \in 1..n |-> PriorRow(k)] : n \in {0, 2, MaxPrior}}

\* the texts of the replies
Apology == <<"apology">>
ReplyText(text) == <<"answer", text>>
ErrorText == <<"error">>

\* Database.log_message: INSERT INTO chat_messages
log_message(rows, role, content) == Append(rows, Row(role, content))

\* Database.get_session_messages: the `limit` newest rows, oldest first
get_session_messages(rows, limit) ==
    SubSeq(rows, IF Len(rows) > limit THEN Len(rows) - limit + 1 ELSE 1,
           Len(rows))

\* lines 132-145: the handler looks the customer up, gets the session and logs
\* the user message
LogUserMessage(t) ==
    /\ pc[t] = "inbound"
    /\ chat_messages' = log_message(chat_messages, "user", UserText(t))
    /\ pc' = [pc EXCEPT ![t] = "h_logged"]
    /\ UNCHANGED <<dbVars, roundNum, calls, response, messages, batchLen, idx,
                   tool_results, answer, frame, envVars, adminVars, pricing, history,
                   replies>>

\* line 148: the handler fetches the history of the session
FetchHistory(t) ==
    /\ pc[t] = "h_logged"
    /\ history' = [history EXCEPT ![t] =
                      get_session_messages(chat_messages, HistoryLimit)]
    /\ pc' = [pc EXCEPT ![t] = "idle"]
    /\ UNCHANGED <<dbVars, roundNum, calls, response, messages, batchLen, idx,
                   tool_results, answer, frame, envVars, adminVars, pricing,
                   chat_messages, replies>>

\* line 161: chat() returned; message.answer(response)
SendReply(t) ==
    /\ pc[t] = "done"
    /\ replies' = [replies EXCEPT ![t] = Append(@, ReplyText(answer[t]))]
    /\ pc' = [pc EXCEPT ![t] = "h_answered"]
    /\ UNCHANGED <<dbVars, roundNum, calls, response, messages, batchLen, idx,
                   tool_results, answer, frame, envVars, adminVars, pricing,
                   chat_messages, history>>

\* line 162: the reply is logged, and the handler returns
LogReply(t) ==
    /\ pc[t] = "h_answered"
    /\ chat_messages' =
          log_message(chat_messages, "assistant", ReplyText(answer[t]))
    /\ pc' = [pc EXCEPT ![t] = "h_end"]
    /\ UNCHANGED <<dbVars, roundNum, calls, response, messages, batchLen, idx,
                   tool_results, answer, frame, envVars, adminVars, pricing, history,
                   replies>>

\* lines 164-168: an exception of the try block (chat() raised, or the log of
\* the reply failed) is caught; the apology is sent
SendApology(t) ==
    /\ pc[t] \in {"raised", "h_except"}
    /\ replies' = [replies EXCEPT ![t] = Append(@, Apology)]
    /\ pc' = [pc EXCEPT ![t] = "h_apologised"]
    /\ UNCHANGED <<dbVars, roundNum, calls, response, messages, batchLen, idx,
                   tool_results, answer, frame, envVars, adminVars, pricing,
                   chat_messages, history>>

\* line 169: the error is logged as the assistant entry
LogError(t) ==
    /\ pc[t] = "h_apologised"
    /\ chat_messages' = log_message(chat_messages, "assistant", ErrorText)
    /\ pc' = [pc EXCEPT ![t] = "h_end"]
    /\ UNCHANGED <<dbVars, roundNum, calls, response, messages, batchLen, idx,
                   tool_results, answer, frame, envVars, adminVars, pricing, history,
                   replies>>

\* a store call of the handler fails (the pool cannot give a connection, the
\* statement errors): outside the try block (lines 136-148, 169) the
\* exception leaves the handler, inside it (line 162) it is caught
HandlerStoreFails(t) ==
    /\ pc[t] \in {"inbound", "h_logged", "h_answered", "h_apologised"}
    /\ pc' = [pc EXCEPT ![t] = IF pc[t] = "h_answered" THEN "h_except"
                                                       ELSE "h_left"]
    /\ UNCHANGED <<dbVars, roundNum, calls, response, messages, batchLen, idx,
                   tool_results, answer, frame, envVars, sideVars>>

InitHandler ==
    /\ pricing = NoPricing
    /\ chat_messages \in PriorLogs
    /\ history = [t \in Turns |-> <<>>]
    /\ replies = [t \in Turns |-> <<>>]
    /\ AdminIdle
    /\ inv = [p \in ProductIds |-> [stock |-> InitStock[p], reserved |-> 0]]
    /\ lock = [p \in ProductIds |-> 0]
    /\ txInv = [t \in Turns |-> [p \in ProductIds |-> NoRow]]
    /\ customers = {}
    /\ orders = {}
    /\ order_items = {}
    /\ custSeq = 0
    /\ orderSeq = 0
    /\ requests = {}
    /\ \E sc \in Scenarios :
          /\ pc = [t \in Turns |-> IF t \in sc.turns THEN "inbound"
                                                     ELSE "absent"]
          /\ asks = [t \in Turns |-> IF t \in sc.turns THEN sc.rounds ELSE 0]
    /\ roundNum = [t \in Turns |-> 0]
    /\ calls = [t \in Turns |-> 0]
    /\ response = [t \in Turns |-> NoResponse]
    /\ messages = [t \in Turns |-> <<>>]
    /\ batchLen = [t \in Turns |-> 0]
    /\ idx = [t \in Turns |-> 0]
    /\ tool_results = [t \in Turns |-> <<>>]
    /\ answer = [t \in Turns |-> ""]
    /\ frame = [t \in Turns |-> NoFrame]
    /\ issued = 0

\* the handler around the loop; of the tools, the ones that read
NextHandler ==
    \E t \in Turns :
        \/ LogUserMessage(t)
        \/ FetchHistory(t)
        \/ StartTurn(t)
        \/ ProviderResponds(t)
        \/ HandleResponse(t)
        \/ ProviderFails(t)
        \/ CollectResult(t)
        \/ ToolGetProducts(t)
        \/ ToolCheckStock(t)
        \/ ToolCalculateOrder(t)
        \/ ToolUnknown(t)
        \/ ReadFails(t)
        \/ SendReply(t)
        \/ LogReply(t)
        \/ SendApology(t)
        \/ LogError(t)
        \/ HandlerStoreFails(t)

SpecHandler == InitHandler /\ [][NextHandler]_vars

(***************************************************************************)
(* The admin bot: the handlers of admin_bot/handlers.py.  Every update is  *)
(* handled by its own task, so a handler that awaits the SQL agent, the    *)
(* store or a download is interleaved with the handlers of later updates.  *)
(***************************************************************************)
NumUsers == 2
Users == 1..NumUsers

\* texts are sequences of characters; the words of a text that are never
\* taken apart are kept as one element
Password == <<"p", "w">>
Query == <<"pokazhi zakazy">>
ButtonOrders == <<"Zakazy">>
ButtonStock == <<"Sklad">>
ButtonClients == <<"Klienty">>
ButtonSchema == <<"Shema BD">>
CmdLogout == <<"/logout">>

\* the texts of the messages that reach the catch-all handler
AdminTexts ==
    {<<>>, <<" ">>, Password, <<" ">> \o Password \o <<" ">>, Query,
     ButtonOrders, ButtonStock, ButtonClients, ButtonSchema}

\* /orders, /stock, /clients
SqlCommands == {<<"/orders">>, <<"/stock">>, <<"/clients">>}

\* the file names of the documents sent, by their ending
DocNames == {".md", ".txt", ".pdf"}

RECURSIVE LStrip(_)
LStrip(s) == IF s # <<>> /\ Head(s) = " " THEN LStrip(Tail(s)) ELSE s

RECURSIVE RStrip(_)
RStrip(s) ==
    IF s # <<>> /\ s[Len(s)] = " " THEN RStrip(SubSeq(s, 1, Len(s) - 1)) ELSE s

\* str.strip()
Strip(s) == RStrip(LStrip(s))

\* the gate answers every user as authenticated
is_authenticated_always(user_id) == TRUE

\* is_authenticated, lines 30-32
is_authenticated(user_id) == user_id \in authenticated_users

\* update a arrives: the updates are dispatched in the order of their arrival
Arrives(a) ==
    /\ upd[a].pc = "none"
    /\ a > 1 => upd[a - 1].pc # "none"

\* the handler of update a, a message of user u, has run up to the point pc
Handled(a, u, text, doc, pc_) ==
    upd' = [upd EXCEPT ![a] = [user |-> u, text |-> text, doc |-> doc,
                               pc |-> pc_]]

\* handle_logout, lines 88-96
HandleLogout(a) ==
    /\ Arrives(a)
    /\ \E u \in Users :
          IF u \in authenticated_users
          THEN /\ authenticated_users' = authenticated_users \ {u}
               /\ Handled(a, u, CmdLogout, "", "logged_out")
          ELSE /\ Handled(a, u, CmdLogout, "", "not_authorized")
               /\ UNCHANGED authenticated_users
    /\ UNCHANGED <<dbVars, loopVars, envVars, pricing, handlerVars,
                   agent_prompt>>

\* handle_orders, handle_stock, handle_clients, lines 161-210: the gate, then
\* execute_and_format awaits the store
HandleSqlCommand(a) ==
    /\ Arrives(a)
    /\ \E u \in Users, cmd \in SqlCommands :
          IF ~is_authenticated(u)
          THEN Handled(a, u, cmd, "", "gated")
          ELSE Handled(a, u, cmd, "", "exec")
    /\ UNCHANGED <<dbVars, loopVars, envVars, pricing, handlerVars,
                   authenticated_users, agent_prompt>>

\* handle_document, lines 213-240, up to the download it awaits
HandleDocument(a) ==
    /\ Arrives(a)
    /\ \E u \in Users, name \in DocNames :
          IF ~is_authenticated(u)
          THEN Handled(a, u, <<>>, name, "gated")
          ELSE IF name \notin {".txt", ".md"}
          THEN Handled(a, u, <<>>, name, "rejected")
          ELSE Handled(a, u, <<>>, name, "download")
    /\ UNCHANGED <<dbVars, loopVars, envVars, pricing, handlerVars,
                   authenticated_users, agent_prompt>>

\* handle_document, lines 227-237: the file is downloaded and written over
\* agent_prompt.md
WritePrompt(a) ==
    /\ upd[a].pc = "download"
    /\ agent_prompt' = "uploaded"
    /\ upd' = [upd EXCEPT ![a].pc = "uploaded"]
    /\ UNCHANGED <<dbVars, loopVars, envVars, pricing, handlerVars,
                   authenticated_users>>

\* handle_message of the admin bot, lines 243-281, up to its first await of
\* the SQL agent or the store: the password check of a user who is not
\* authenticated, the buttons, the start of a query
AdminHandleMessage(a) ==
    /\ Arrives(a)
    /\ \E u \in Users, raw \in AdminTexts :
          LET text == Strip(raw)
          IN  IF text = <<>>
              THEN /\ Handled(a, u, raw, "", "ignored")
                   /\ UNCHANGED authenticated_users
              ELSE IF ~is_authenticated(u)
              THEN IF text = Password
                   THEN /\ authenticated_users' = authenticated_users \cup {u}
                        /\ Handled(a, u, raw, "", "authenticated")
                   ELSE /\ Handled(a, u, raw, "", "gated")
                        /\ UNCHANGED authenticated_users
              ELSE /\ UNCHANGED authenticated_users
                   /\ IF text \in {ButtonOrders, ButtonStock, ButtonClients}
                      THEN Handled(a, u, raw, "", "exec")
                      ELSE IF text = ButtonSchema
                      THEN Handled(a, u, raw, "", "shown")
                      ELSE Handled(a, u, raw, "", "gen")
    /\ UNCHANGED <<dbVars, loopVars, envVars, pricing, handlerVars,
                   agent_prompt>>

\* lines 282-285: sql_agent.generate_sql(text) returns the query
GenerateSql(a) ==
    /\ upd[a].pc = "gen"
    /\ upd' = [upd EXCEPT ![a].pc = "exec"]
    /\ UNCHANGED <<dbVars, loopVars, envVars, pricing, handlerVars,
                   authenticated_users, agent_prompt>>

\* lines 288-289, and execute_and_format line 38: db.execute_raw runs the query
ExecuteSql(a) ==
    /\ upd[a].pc = "exec"
    /\ upd' = [upd EXCEPT ![a].pc = "executed"]
    /\ UNCHANGED <<dbVars, loopVars, envVars, pricing, handlerVars,
                   authenticated_users, agent_prompt>>

\* the SQL agent, the store or the download raises: the except branches
\* answer with the error
AdminFails(a) ==
    /\ upd[a].pc \in {"gen", "exec", "download"}
    /\ upd' = [upd EXCEPT ![a].pc = "failed"]
    /\ UNCHANGED <<dbVars, loopVars, envVars, pricing, handlerVars,
                   authenticated_users, agent_prompt>>

InitAdmin ==
    /\ pricing = NoPricing
    /\ chat_messages = <<>>
    /\ history = [t \in Turns |-> <<>>]
    /\ replies = [t \in Turns |-> <<>>]
    /\ AdminIdle
    /\ inv = [p \in ProductIds |-> [stock |-> InitStock[p], reserved |-> 0]]
    /\ lock = [p \in ProductIds |-> 0]
    /\ txInv = [t \in Turns |-> [p \in ProductIds |-> NoRow]]
    /\ customers = {}
    /\ orders = {}
    /\ order_items = {}
    /\ custSeq = 0
    /\ orderSeq = 0
    /\ requests = {}
    /\ pc = [t \in Turns |-> "absent"]
    /\ asks = [t \in Turns |-> 0]
    /\ roundNum = [t \in Turns |-> 0]
    /\ calls = [t \in Turns |-> 0]
    /\ response = [t \in Turns |-> NoResponse]
    /\ messages = [t \in Turns |-> <<>>]
    /\ batchLen = [t \in Turns |-> 0]
    /\ idx = [t \in Turns |-> 0]
    /\ tool_results = [t \in Turns |-> <<>>]
    /\ answer = [t \in Turns |-> ""]
    /\ frame = [t \in Turns |-> NoFrame]
    /\ issued = 0

NextAdmin ==
    \E a \in Updates :
        \/ HandleLogout(a)
        \/ HandleSqlCommand(a)
        \/ HandleDocument(a)
        \/ WritePrompt(a)
        \/ AdminHandleMessage(a)
        \/ GenerateSql(a)
        \/ ExecuteSql(a)
        \/ AdminFails(a)

SpecAdmin == InitAdmin /\ [][NextAdmin]_vars

(***************************************************************************)
(* The pricing arithmetic alone: the discount branch of                    *)
(* tool_calculate_order and of tool_create_order applied to any order      *)
(* total from 0 to MaxTotal.                                               *)
(***************************************************************************)
InitPricing ==
    /\ pricing \in {[NoPricing EXCEPT !.subtotal = s] : s \in 0..MaxTotal}
    /\ chat_messages = <<>>
    /\ history = [t \in Turns |-> <<>>]
    /\ replies = [t \in Turns |-> <<>>]
    /\ AdminIdle
    /\ inv = [p \in ProductIds |-> [stock |-> InitStock[p], reserved |-> 0]]
    /\ lock = [p \in ProductIds |-> 0]
    /\ txInv = [t \in Turns |-> [p \in ProductIds |-> NoRow]]
    /\ customers = {}
    /\ orders = {}
    /\ order_items = {}
    /\ custSeq = 0
    /\ orderSeq = 0
    /\ requests = {}
    /\ pc = [t \in Turns |-> "absent"]
    /\ asks = [t \in Turns |-> 0]
    /\ roundNum = [t \in Turns |-> 0]
    /\ calls = [t \in Turns |-> 0]
    /\ response = [t \in Turns |-> NoResponse]
    /\ messages = [t \in Turns |-> <<>>]
    /\ batchLen = [t \in Turns |-> 0]
    /\ idx = [t \in Turns |-> 0]
    /\ tool_results = [t \in Turns |-> <<>>]
    /\ answer = [t \in Turns |-> ""]
    /\ frame = [t \in Turns |-> NoFrame]
    /\ issued = 0

\* tools.py lines 187-195 and 254-255 on the same subtotal
ApplyPricing ==
    /\ ~pricing.done
    /\ pricing' = [pricing EXCEPT !.done = TRUE,
                                  !.calc = CalcTotals(pricing.subtotal),
                                  !.order = OrderTotals(pricing.subtotal)]
    /\ UNCHANGED <<dbVars, loopVars, envVars, handlerVars, adminVars>>

NextPricing == ApplyPricing

SpecPricing == InitPricing /\ [][NextPricing]_vars

(***************************************************************************)
(* tool_calculate_order alone, applied to every item list of up to         *)
(* MaxItems items over the skus of the catalog and a sku that is not in    *)
(* it, with quantities up to MaxQty.                                       *)
(***************************************************************************)
PreviewItems ==
    {Item(sku, qty) : sku \in {"0_5L", "1L", UnknownSku}, qty \in 0..MaxQty}

PreviewLists ==
    UNION {[1..n -> PreviewItems] : n \in 0..MaxItems}

InitPreview ==
    /\ pricing \in {[items |-> its, done |-> FALSE, result |-> Result("none")] :
                       its \in PreviewLists}
    /\ chat_messages = <<>>
    /\ history = [t \in Turns |-> <<>>]
    /\ replies = [t \in Turns |-> <<>>]
    /\ AdminIdle
    /\ inv = [p \in ProductIds |-> [stock |-> InitStock[p], reserved |-> 0]]
    /\ lock = [p \in ProductIds |-> 0]
    /\ txInv = [t \in Turns |-> [p \in ProductIds |-> NoRow]]
    /\ customers = {}
    /\ orders = {}
    /\ order_items = {}
    /\ custSeq = 0
    /\ orderSeq = 0
    /\ requests = {}
    /\ pc = [t \in Turns |-> "absent"]
    /\ asks = [t \in Turns |-> 0]
    /\ roundNum = [t \in Turns |-> 0]
    /\ calls = [t \in Turns |-> 0]
    /\ response = [t \in Turns |-> NoResponse]
    /\ messages = [t \in Turns |-> <<>>]
    /\ batchLen = [t \in Turns |-> 0]
    /\ idx = [t \in Turns |-> 0]
    /\ tool_results = [t \in Turns |-> <<>>]
    /\ answer = [t \in Turns |-> ""]
    /\ frame = [t \in Turns |-> NoFrame]
    /\ issued = 0

\* tool_calculate_order on the item list
ApplyPreview ==
    /\ ~pricing.done
    /\ pricing' = [pricing EXCEPT !.done = TRUE,
                                  !.result = tool_calculate_order(pricing.items)]
    /\ UNCHANGED <<dbVars, loopVars, envVars, handlerVars, adminVars>>

NextPreview == ApplyPreview

SpecPreview == InitPreview /\ [][NextPreview]_vars

(***************************************************************************)
(* Properties.                                                             *)
(***************************************************************************)
RECURSIVE SumOver(_, _)
\* the sum of field f of the rows of a set (f is "qty_packs" or "subtotal")
SumOver(rows, f) ==
    IF rows = {} THEN 0
    ELSE LET r == CHOOSE x \in rows : TRUE
         IN  r[f] + SumOver(rows \ {r}, f)

\* packs of product p in the committed orders
SoldPacks(p) == SumOver({r \in order_items : r.product_id = p}, "qty_packs")

\* C1: no oversell under concurrency: whatever the interleaving of the
\* create_order calls, the quantities of a product in the orders that
\* succeeded never add up to more than the product's initial stock_packs.
C1_NoOversell == \A p \in ProductIds : SoldPacks(p) <= InitStock[p]

\* an order took packs of a product and a concurrent create_order, which had
\* passed its availability check, lost at the guarded UPDATE: together they
\* asked for more than the stock
C1_Witness ==
    \E t \in Turns, p \in ProductIds :
        /\ pc[t] = "returned"
        /\ frame[t].result.exc = "ValueError"
        /\ frame[t].result.sku = SkuOf[p]
        /\ SoldPacks(p) > 0
        /\ \E k \in 1..Len(frame[t].call.items) :
              /\ ItemSku(frame[t].call.items[k]) = SkuOf[p]
              /\ SoldPacks(p) + ItemQty(frame[t].call.items[k]) > InitStock[p]

\* C2: inventory invariant: every committed inventory row, the only rows
\* other operations observe, has 0 <= reserved_packs <= stock_packs.
C2_InventoryInvariant ==
    \A p \in ProductIds : 0 <= inv[p].reserved /\ inv[p].reserved <= inv[p].stock

\* an order has been committed while another transaction holds a reservation
\* it has not committed
C2_Witness ==
    /\ \E p \in ProductIds : inv[p].stock < InitStock[p]
    /\ \E t \in Turns, q \in ProductIds : lock[q] = t /\ txInv[t][q].reserved > 0

\* C3: create_order is all-or-nothing on reservation failure: no step of a
\* transaction that ends in a failed reservation changes the committed
\* inventory, orders or order items, and the failure leaves no lock behind.
C3_AllOrNothing ==
    [][\A t \in Turns :
          /\ (pc[t] = "tx_reserve" /\ pc'[t] = "returned"
                /\ frame'[t].result.exc = "ValueError")
             => /\ inv' = inv /\ orders' = orders /\ order_items' = order_items
                /\ \A p \in ProductIds : lock'[p] # t
                /\ frame[t].order_id = 0
          /\ (pc[t] = "tx_reserve" /\ pc'[t] \in {"tx_reserve", "tx_insert"}
                /\ frame'[t] # frame[t])
             => inv' = inv /\ orders' = orders /\ order_items' = order_items
      ]_vars

\* the reservation of the second item of a request failed after the first
\* item had been reserved
C3_Witness ==
    \E t \in Turns :
        /\ pc[t] = "returned"
        /\ frame[t].result.exc = "ValueError"
        /\ Len(frame[t].call.items) = 2
        /\ frame[t].result.sku = ItemSku(frame[t].call.items[2])
        /\ ItemSku(frame[t].call.items[1]) # ItemSku(frame[t].call.items[2])
        /\ \A p \in ProductIds : lock[p] # t /\ inv[p].reserved = 0

\* C4: bounded termination: a turn makes at most MAX_TOOL_ROUNDS provider
\* calls, and a turn in which every provider call returned a tool batch ends
\* after the 5th call with the fallback string as its answer.
C4_BoundedRounds ==
    \A t \in Turns :
        /\ calls[t] <= MAX_TOOL_ROUNDS
        /\ (pc[t] = "done" /\ roundNum[t] = calls[t])
              => calls[t] = MAX_TOOL_ROUNDS /\ answer[t] = Fallback

C4_Witness ==
    \E t \in Turns :
        pc[t] = "done" /\ answer[t] = Fallback /\ calls[t] = 5 /\ roundNum[t] = 5

ToolPcs == {"dispatch", "co_insert_customer", "co_products", "tx_reserve",
            "tx_insert", "tx_deduct", "tx_commit"}

ResultKinds == {"products", "stock", "stock_not_found", "empty", "calc",
                "unknown_function", "unsupported_region", "product_not_found",
                "insufficient", "created", "error"}

\* C5: the tool executor never raises: a tool in progress, whatever its name
\* and arguments and whatever fails in the handler or the store, ends by
\* returning a string to the loop, and the loop then goes on to the next call
\* of the batch or the next round.
C5_ExecutorNeverRaises ==
    [][\A t \in Turns :
          /\ pc[t] \in ToolPcs => pc'[t] \in ToolPcs \cup {"returned"}
          /\ pc'[t] = "returned" => frame'[t].result.kind \in ResultKinds
          /\ pc[t] = "returned"
                => pc'[t] \in {"returned", "dispatch", "request", "done"}
      ]_vars

\* a store failure inside create_order's transaction and a name that is no
\* tool have both come back as strings
C5_Witness ==
    \E t \in Turns, u \in Turns :
        /\ pc[t] = "returned"
        /\ frame[t].call.name = "create_order"
        /\ frame[t].result.kind = "error"
        /\ frame[t].result.exc = "PostgresError"
        /\ pc[u] = "returned"
        /\ frame[u].call \in UnknownCalls
        /\ frame[u].result.kind = "unknown_function"

\* C6: discount law: for every order total s >= 0, calculate_order and
\* create_order both compute discount = s div 10 when s >= 5000 and 0
\* otherwise, and final = s - discount.
C6_DiscountLaw ==
    pricing.done =>
        LET s == pricing.subtotal
            d == IF s >= 5000 THEN s \div 10 ELSE 0
        IN  /\ pricing.order = [discount |-> d, final |-> s - d]
            /\ pricing.calc = [discount |-> d, final |-> s - d]

C6_Witness ==
    /\ pricing.done
    /\ pricing.subtotal = 12345
    /\ pricing.order = [discount |-> 1234, final |-> 11111]
    /\ pricing.calc = [discount |-> 1234, final |-> 11111]

ItemsOf(o) == {r \in order_items : r.order_id = o.id}
RequestOf(o) == CHOOSE r \in requests : r.order_id = o.id

\* C7: order consistency: every committed order has exactly one order item
\* per requested item, each with subtotal = qty_packs * price_per_pack; the
\* subtotals add up to total_amount, and final_amount = total_amount -
\* discount_amount.
C7_OrderConsistency ==
    \A o \in orders :
        LET rows == ItemsOf(o)
            asked == RequestOf(o).items
        IN  /\ Cardinality(rows) = Len(asked)
            /\ \A k \in 1..Len(asked) :
                  \E r \in rows : /\ r.line = k
                                  /\ r.sku = ItemSku(asked[k])
                                  /\ r.qty_packs = ItemQty(asked[k])
            /\ \A r \in rows : r.subtotal = r.qty_packs * r.price_per_pack
            /\ SumOver(rows, "subtotal") = o.total_amount
            /\ o.final_amount = o.total_amount - o.discount_amount

\* the order for [{sku 0_5L, qty 2}] at price 1000
C7_Witness ==
    \E o \in orders :
        /\ RequestOf(o).items = <<Item("0_5L", 2)>>
        /\ o.total_amount = 2000 /\ o.discount_amount = 0 /\ o.final_amount = 2000
        /\ \E r \in order_items :
              /\ ItemsOf(o) = {r}
              /\ r.sku = "0_5L" /\ r.qty_packs = 2
              /\ r.price_per_pack = 1000 /\ r.subtotal = 2000

\* C8: unsupported region: create_order for the city Moskva returns the
\* unsupported-region result in its first step, before any store operation:
\* customers, inventory, orders, order items, locks and sequences are unchanged.
C8_UnsupportedRegion ==
    [][\A t \in Turns :
          (/\ pc[t] = "dispatch" /\ pc'[t] # "dispatch"
           /\ frame'[t].call.name = "create_order"
           /\ frame'[t].call.city = CityMoskva)
          => /\ pc'[t] = "returned"
             /\ frame'[t].result.kind = "unsupported_region"
             /\ UNCHANGED dbVars
      ]_vars

C8_Witness ==
    \E t \in Turns :
        /\ pc[t] = "returned"
        /\ frame[t].call.name = "create_order"
        /\ frame[t].call.city = CityMoskva
        /\ frame[t].result.kind = "unsupported_region"

\* C9: check_stock with a sku that matches no product returns to the loop
\* (it raises nothing) without any store write, and when the store answered
\* its SELECT the string it returns is the not-found sentence naming the sku.
C9_CheckStockUnknown ==
    [][\A t \in Turns :
          (/\ pc[t] = "dispatch" /\ pc'[t] # "dispatch"
           /\ frame'[t].call.name = "check_stock"
           /\ frame'[t].call.sku = UnknownSku)
          => /\ pc'[t] = "returned"
             /\ UNCHANGED dbVars
             /\ frame'[t].result.exc = ""
                   => /\ frame'[t].result.kind = "stock_not_found"
                      /\ frame'[t].result.sku = UnknownSku
      ]_vars

C9_Witness ==
    \E t \in Turns :
        /\ pc[t] = "returned"
        /\ frame[t].call.name = "check_stock"
        /\ frame[t].call.sku = UnknownSku
        /\ frame[t].result.kind = "stock_not_found"

\* C10: completion: when chat() examines a response with zero tool calls (no
\* tool-call list, or an empty one), the turn ends at once with the
\* response's text as its answer; an ended turn makes no further provider
\* call and runs no tool.
C10_Completion ==
    [][\A t \in Turns :
          /\ (pc[t] = "responded" /\ response[t].n = 0 /\ pc'[t] # "responded")
             => /\ pc'[t] = "done"
                /\ answer'[t] = response[t].text
                /\ calls'[t] = calls[t]
                /\ frame'[t] = NoFrame
          /\ pc[t] = "done"
             => /\ pc'[t] = "done" /\ calls'[t] = calls[t]
                /\ answer'[t] = answer[t] /\ frame'[t] = NoFrame
      ]_vars

\* a turn that ran a round of tools and then got plain text
C10_Witness ==
    \E t \in Turns :
        /\ pc[t] = "done" /\ answer[t] = "reply"
        /\ calls[t] = 2 /\ roundNum[t] = 1

\* the last entry of a non-empty messages list
LastMessage(t) == messages[t][Len(messages[t])]

\* the batch positions 1..n in the order listed
Positions(n) == [k \in 1..n |-> k]

\* C11: tool round protocol: when a response holds n >= 1 tool calls, the
\* loop first appends one assistant entry holding the batch, then runs the n
\* calls one at a time in the order listed (a call starts only after its
\* predecessor returned, and a failed call is followed by the next one), then
\* appends one tool-results entry with the n results in that order, and only
\* then makes the next provider call.
C11_ToolRoundProtocol ==
    [][\A t \in Turns :
          /\ (pc[t] = "responded" /\ response[t].hasList /\ response[t].n >= 1
                /\ pc'[t] # "responded")
             => /\ messages'[t] = Append(messages[t],
                      Message("assistant", "toolCallList",
                              Positions(response[t].n)))
                /\ pc'[t] = "dispatch" /\ idx'[t] = 1
                /\ batchLen'[t] = response[t].n
                /\ tool_results'[t] = <<>>
          /\ pc'[t] \in ToolPcs \cup {"returned"}
             => /\ idx'[t] \in 1..batchLen'[t]
                /\ tool_results'[t] = Positions(idx'[t] - 1)
                /\ messages'[t] # <<>>
                /\ messages'[t][Len(messages'[t])] =
                      Message("assistant", "toolCallList",
                              Positions(batchLen'[t]))
                /\ calls'[t] = calls[t]
          /\ (pc[t] = "returned" /\ pc'[t] # "returned")
             => IF idx[t] < batchLen[t]
                THEN pc'[t] = "dispatch" /\ idx'[t] = idx[t] + 1
                ELSE \/ /\ pc'[t] = "request"
                        /\ calls'[t] = calls[t] + 1
                        /\ messages'[t] = Append(messages[t],
                              Message("user", "toolResultList",
                                      Positions(batchLen[t])))
                     \/ /\ pc'[t] = "done"
                        /\ calls'[t] = calls[t]
          /\ (calls'[t] # calls[t] /\ pc[t] # "idle")
             => pc[t] = "returned" /\ idx[t] = batchLen[t]
      ]_vars

\* a round of two calls has ended and the next request is out: its results
\* entry holds both results in the order of the calls
C11_Witness ==
    \E t \in Turns :
        /\ pc[t] = "request" /\ calls[t] = 2
        /\ LastMessage(t) = Message("user", "toolResultList", <<1, 2>>)
        /\ messages[t][Len(messages[t]) - 1] =
              Message("assistant", "toolCallList", <<1, 2>>)

\* C12: provider transport failure: a request in any round ends either with
\* a response to examine or with the failure raised to the caller of chat();
\* the failed call is not repeated (a provider call is made only when the
\* turn starts or a tool round has ended), and a turn that raised makes no
\* further provider call, runs no tool, returns no answer and writes nothing.
C12_ProviderFailure ==
    [][\A t \in Turns :
          /\ pc[t] = "request"
             => /\ pc'[t] \in {"request", "responded", "raised"}
                /\ calls'[t] = calls[t]
          /\ (pc[t] = "request" /\ pc'[t] = "raised")
             => /\ answer'[t] = ""
                /\ frame'[t] = NoFrame
                /\ <<inv, customers, orders, order_items>>' =
                      <<inv, customers, orders, order_items>>
          /\ pc[t] = "raised"
             => /\ pc'[t] = "raised"
                /\ calls'[t] = calls[t]
                /\ frame'[t] = NoFrame
                /\ answer'[t] = ""
      ]_vars

\* the request of the second round failed, after a round of tools
C12_Witness ==
    \E t \in Turns :
        pc[t] = "raised" /\ calls[t] = 2 /\ roundNum[t] = 1

\* C13: unknown product aborts with nothing persisted: when create_order
\* ends with the product-not-found result, the call has left the store as it
\* was: it inserted no Customer, no Order, no OrderItem and changed no
\* inventory row.
C13_UnknownProductNothingPersisted ==
    [][\A t \in Turns :
          (/\ pc[t] = "co_products"
           /\ pc'[t] = "returned"
           /\ frame'[t].result.kind = "product_not_found")
          => /\ ~frame[t].new_customer
             /\ <<inv, customers, orders, order_items>>' =
                   <<inv, customers, orders, order_items>>
      ]_vars

\* what other operations can observe of the inventory and the orders: no
\* reservation is outstanding and every product's stock is its initial stock
\* less the packs of the committed order items
NoPartialOrder ==
    \A p \in ProductIds :
        /\ inv[p].reserved = 0
        /\ InitStock[p] - inv[p].stock = SoldPacks(p)

\* the part of C14 that concerns inventory, orders and order items
C14_TransactionPart ==
    [][/\ NoPartialOrder'
       /\ \A t \in Turns :
             (/\ pc[t] \in {"tx_insert", "tx_deduct"}
              /\ pc'[t] = "returned"
              /\ frame'[t].result.kind = "error")
             => <<inv, orders, order_items>>' = <<inv, orders, order_items>>
      ]_vars

\* C14: crash atomicity of fulfilment: customer resolution, reservation,
\* order and item persistence and stock deduction are one unit: other
\* operations never observe reserved-but-uncommitted stock or an Order
\* without its stock deduction, and when the store aborts the call between
\* the reservations and the deduction nothing of the call remains: no
\* inventory change, no Order, no OrderItem, no Customer it created.
C14_CrashAtomicity ==
    [][/\ NoPartialOrder'
       /\ \A t \in Turns :
             (/\ pc[t] \in {"tx_insert", "tx_deduct"}
              /\ pc'[t] = "returned"
              /\ frame'[t].result.kind = "error")
             => /\ <<inv, orders, order_items>>' = <<inv, orders, order_items>>
                /\ ~frame[t].new_customer
      ]_vars

RECURSIVE OrderedPacks(_, _, _)
\* the total quantity the requested items from k on ask of product p
OrderedPacks(items, p, k) ==
    IF k > Len(items) THEN 0
    ELSE (IF ItemSku(items[k]) = SkuOf[p] THEN ItemQty(items[k]) ELSE 0)
            + OrderedPacks(items, p, k + 1)

\* C15: commit effect: the commit of a successful create_order lowers the
\* committed stock_packs of every product by exactly the total quantity the
\* call ordered of it and leaves its reserved_packs as it was; the inventory
\* rows of products not in the order are unchanged.
C15_CommitEffect ==
    [][\A t \in Turns :
          (/\ pc[t] = "tx_commit"
           /\ pc'[t] = "returned"
           /\ frame'[t].result.kind = "created")
          => \A p \in ProductIds :
                /\ inv'[p].stock =
                      inv[p].stock - OrderedPacks(frame[t].call.items, p, 1)
                /\ inv'[p].reserved = inv[p].reserved
      ]_vars

\* an order of one pack of 1L and two of 0_5L has been committed
C15_Witness ==
    \E t \in Turns :
        /\ pc[t] = "returned"
        /\ frame[t].result.kind = "created"
        /\ frame[t].call.items = <<Item("1L", 1), Item("0_5L", 2)>>
        /\ inv = <<[stock |-> StockA - 2, reserved |-> 0],
                   [stock |-> StockB - 1, reserved |-> 0]>>

ReadOnlyTools == {"get_products", "check_stock", "calculate_order"}

\* C16: read-only tools: a call of get_products, check_stock or
\* calculate_order, whatever its arguments and its outcome, leaves the
\* inventory, the customers, the orders and the order items as they were
\* (and takes no row lock); every change of these tables is made by a turn
\* that is running create_order.
C16_ReadOnlyTools ==
    [][\A t \in Turns :
          /\ (/\ pc[t] = "dispatch"
              /\ pc'[t] = "returned"
              /\ frame'[t].call.name \in ReadOnlyTools)
             => /\ <<inv, customers, orders, order_items>>' =
                      <<inv, customers, orders, order_items>>
                /\ <<lock, txInv>>' = <<lock, txInv>>
          /\ (/\ <<inv, customers, orders, order_items>>' #
                      <<inv, customers, orders, order_items>>
              /\ pc'[t] # pc[t])
             => /\ frame[t].call.name = "create_order"
                /\ pc[t] \in {"co_insert_customer", "tx_commit"}
      ]_vars

\* after an order was committed, a calculate_order preview has returned its
\* totals
C16_Witness ==
    \E t \in Turns :
        /\ pc[t] = "returned"
        /\ frame[t].call.name = "calculate_order"
        /\ frame[t].result.kind = "calc"
        /\ orders # {}

KnownSkus == {SkuOf[p] : p \in ProductIds}

\* the sum of price x qty over the items whose sku is in the catalog
KnownSum(items) ==
    SumOver({[p |-> p, amount |-> Price[p] * OrderedPacks(items, p, 1)] :
                p \in ProductIds},
            "amount")

\* C17: calculate_order on a list of known and unknown skus has one line per
\* item, in order; the line of an item is "not found" exactly when its sku
\* is unknown; the subtotal is the sum of price x qty over the items with a
\* known sku, the discount a tenth of it (rounded down) from 5000 on and 0
\* below, the final amount their difference.
C17_CalculateOrderMix ==
    pricing.done =>
        LET items == pricing.items
            r == pricing.result
        IN  IF items = <<>> THEN r.kind = "empty"
            ELSE /\ r.kind = "calc"
                 /\ Len(r.lines) = Len(items)
                 /\ \A k \in 1..Len(items) :
                       /\ r.lines[k].sku = ItemSku(items[k])
                       /\ r.lines[k].found = (ItemSku(items[k]) \in KnownSkus)
                       /\ r.lines[k].found => r.lines[k].qty = ItemQty(items[k])
                 /\ r.subtotal = KnownSum(items)
                 /\ r.discount = IF r.subtotal >= 5000
                                 THEN r.subtotal \div 10 ELSE 0
                 /\ r.final = r.subtotal - r.discount

\* an unknown sku between two known ones, over the discount threshold
C17_Witness ==
    /\ pricing.done
    /\ pricing.items = <<Item("1L", 2), Item(UnknownSku, 1), Item("0_5L", 1)>>
    /\ pricing.result.subtotal = 2 * PriceB + PriceA
    /\ ~pricing.result.lines[2].found
    /\ pricing.result.lines[3].found

\* the items of the call do not match the declared shape: an item lacks a
\* required field
Malformed(call) ==
    \E k \in 1..Len(call.items) : ~({"sku", "qty"} \subseteq DOMAIN call.items[k])

\* C18: argument validation: a create_order call with an item that lacks
\* sku or qty ends with an error string, never with a created order, and
\* its steps leave orders, order items and inventory as they were.
C18_ArgumentValidation ==
    [][\A t \in Turns :
          (/\ frame'[t].call.name = "create_order"
           /\ Malformed(frame'[t].call)
           /\ pc'[t] # pc[t])
          => /\ <<inv, orders, order_items>>' = <<inv, orders, order_items>>
             /\ pc'[t] = "returned" => frame'[t].result.kind # "created"
      ]_vars

\* C19: customer deduplication by phone: at most one Customer exists per
\* phone, and a create_order call that found no customer with its phone,
\* whatever other calls do meanwhile, goes on with the customer of that
\* phone (unless the store itself fails).
C19_CustomerDedup ==
    [][/\ \A c \in customers', d \in customers' :
             c.phone = d.phone => c = d
       /\ \A t \in Turns :
             (pc[t] = "co_insert_customer" /\ pc'[t] # pc[t])
             => \/ /\ pc'[t] = "co_products"
                   /\ \E c \in customers' :
                         /\ c.phone = frame[t].call.phone
                         /\ c.id = frame'[t].customer_id
                \/ /\ pc'[t] = "returned"
                   /\ frame'[t].result.exc = "PostgresError"
      ]_vars

\* C20: insufficient stock is reported precisely on every path: a
\* create_order that failed because an item could not be reserved, at the
\* availability pre-check or at the guarded reservation UPDATE, returns a
\* result that names the sku, the requested quantity and the available
\* quantity.
C20_InsufficientStockPrecise ==
    \A t \in Turns :
        (/\ pc[t] = "returned"
         /\ frame[t].call.name = "create_order"
         /\ \/ frame[t].result.kind = "insufficient"
            \/ frame[t].result.kind = "error" /\ frame[t].result.exc = "ValueError")
        => /\ {"sku", "qty", "available"} \subseteq Reports(frame[t].result)
           /\ \E k \in 1..Len(frame[t].call.items) :
                 /\ ItemSku(frame[t].call.items[k]) = frame[t].result.sku
                 /\ ItemQty(frame[t].call.items[k]) = frame[t].result.qty

\* the part of C20 that concerns the availability pre-check
C20_PrecheckPrecise ==
    \A t \in Turns :
        (pc[t] = "returned" /\ frame[t].result.kind = "insufficient")
        => /\ {"sku", "qty", "available"} \subseteq Reports(frame[t].result)
           /\ \E k \in 1..Len(frame[t].call.items) :
                 /\ ItemSku(frame[t].call.items[k]) = frame[t].result.sku
                 /\ ItemQty(frame[t].call.items[k]) = frame[t].result.qty
                 /\ frame[t].result.available < frame[t].result.qty


(***************************************************************************)
(* The handler around the loop.                                            *)
(***************************************************************************)
\* positions of `msgs` that hold the text of the inbound message of turn t
Occurrences(msgs, t) ==
    {k \in 1..Len(msgs) : msgs[k].kind = "text" /\ msgs[k].items = UserText(t)}

\* the rows of the session log as entries of a messages list
LogEntries == [k \in 1..Len(chat_messages) |->
                  Message(chat_messages[k].role, "text",
                          chat_messages[k].content)]

\* `part` is a run of consecutive entries of `whole`, in the order of `whole`
IsRunOf(part, whole) ==
    \E from \in 1..(Len(whole) + 1) :
        /\ from + Len(part) - 1 <= Len(whole)
        /\ \A k \in 1..Len(part) : part[k] = whole[from + k - 1]

\* C21: the first provider call of a turn carries the system prompt first,
\* then prior history of the session oldest first, then the new user message
\* as the last entry, and the new user message occurs exactly once.
C21_InitialMessages ==
    \A t \in Turns :
        pc[t] = "request" /\ calls[t] = 1 =>
            LET m == messages[t]
            IN  /\ Len(m) >= 2
                /\ m[1] = Message("system", "text", SystemPrompt)
                /\ m[Len(m)] = Message("user", "text", UserText(t))
                /\ IsRunOf(SubSeq(m, 2, Len(m) - 1), LogEntries)
                /\ Cardinality(Occurrences(m, t)) = 1

\* the order and the ends of the first request, without the count
C21_OrderAndEnds ==
    \A t \in Turns :
        pc[t] = "request" /\ calls[t] = 1 =>
            LET m == messages[t]
            IN  /\ Len(m) >= 2
                /\ m[1] = Message("system", "text", SystemPrompt)
                /\ m[Len(m)] = Message("user", "text", UserText(t))
                /\ IsRunOf(SubSeq(m, 2, Len(m) - 1), LogEntries)


\* C22: a failure of the store during a tool call is propagated to the caller
\* of the turn as a failure of its own and is not folded into the
\* conversation: no tool call comes back to the loop with the store's error
\* as its result.
C22_StoreFailurePropagates ==
    \A t \in Turns :
        pc[t] = "returned" =>
            ~(/\ frame[t].result.kind = "error"
              /\ frame[t].result.exc = "PostgresError")


\* the handler of turn t is over: it returned, or an exception left it
HandlerOver(t) == pc[t] \in {"h_end", "h_left"}

\* C23: one reply per inbound message: the user message is in the log before
\* the loop is called; the handler never sends a second reply; and when it is
\* over, whatever failed, it has sent exactly one reply: the text chat()
\* returned (the provider's final text or the round-limit fallback) or the
\* apology.
C23_OneReplyPerMessage ==
    \A t \in Turns :
        /\ pc[t] \notin {"absent", "inbound", "h_left"}
              => \E k \in 1..Len(chat_messages) :
                    chat_messages[k] = Row("user", UserText(t))
        /\ Len(replies[t]) <= 1
        /\ HandlerOver(t)
              => /\ Len(replies[t]) = 1
                 /\ replies[t][1] \in {ReplyText(answer[t]), Apology}

\* when chat() raised, the one reply is the apology, and one assistant entry
\* is logged after it
C23_ChatRaised ==
    [][\A t \in Turns :
          /\ pc[t] = "raised" /\ pc'[t] # "raised"
                => replies'[t] = <<Apology>> /\ pc'[t] = "h_apologised"
          /\ pc[t] = "h_apologised" /\ pc'[t] = "h_end"
                => chat_messages' = Append(chat_messages,
                                           Row("assistant", ErrorText))
      ]_vars


\* the orchestration state of turn t: the locals of its chat()
Locals(t) ==
    <<messages[t], roundNum[t], tool_results[t], calls[t], response[t],
      batchLen[t], idx[t], answer[t], pc[t]>>

\* the entries of `msgs` of the given kind
EntriesOf(msgs, kind) == {k \in 1..Len(msgs) : msgs[k].kind = kind}

C25_FallbackAfterFifthBatch ==
    [][\A t \in Turns :
          /\ (answer[t] # Fallback /\ answer'[t] = Fallback)
                => /\ pc[t] = "returned"
                   /\ calls[t] = MAX_TOOL_ROUNDS
                   /\ roundNum[t] = MAX_TOOL_ROUNDS - 1
                   /\ roundNum'[t] = MAX_TOOL_ROUNDS
                   /\ idx[t] = batchLen[t]
                   /\ Len(tool_results[t]) = batchLen[t] - 1
                   /\ frame[t].result.kind \in ResultKinds
                   /\ frame[t].result.kind = "created"
                         => \E o \in orders : o.id = frame[t].result.order_id
                   /\ orders' = orders
                   /\ Cardinality(EntriesOf(messages[t], "toolCallList"))
                         = MAX_TOOL_ROUNDS
                   /\ Cardinality(EntriesOf(messages[t], "toolResultList"))
                         = MAX_TOOL_ROUNDS - 1
          /\ answer[t] = Fallback
                => /\ pc'[t] = "done"
                   /\ calls'[t] = MAX_TOOL_ROUNDS
                   /\ messages'[t] = <<>>
      ]_vars

\* a turn has ended with the fallback, and a create_order of its 5th batch
\* persisted an order
C25_Witness ==
    \E t \in Turns :
        /\ pc[t] = "done"
        /\ answer[t] = Fallback
        /\ \E r \in requests :
              /\ r.turn = t
              /\ r.batch = MAX_TOOL_ROUNDS
              /\ \E o \in orders : o.id = r.order_id


\* the transaction of turn t waits for a row lock the transaction of turn u
\* holds
WaitsFor(t, u) == Waiting(t) /\ lock[NextItem(t).product_id] = u

\* C26: no deadlock between concurrent orders: two create_order transactions
\* on overlapping products, in whatever order they list them, never wait on
\* each other cyclically.
C26_NoCyclicWait ==
    \A t \in Turns, u \in Turns :
        t # u => ~(WaitsFor(t, u) /\ WaitsFor(u, t))


\* C27: stock only goes down through orders: over any sequence of tool calls
\* with any arguments, zero and negative quantities included, no step raises
\* the stock_packs of a product, every persisted order has total_amount >= 0
\* and every persisted order item has qty_packs >= 1.
C27_StockOnlyGoesDown ==
    [][/\ \A p \in ProductIds : inv'[p].stock <= inv[p].stock
       /\ \A o \in orders' : o.total_amount >= 0
       /\ \A r \in order_items' : r.qty_packs >= 1
      ]_vars

\* the same with the quantities of every call at least 1
C27_PositiveQuantities ==
    [][(\A r \in requests' :
           \A k \in 1..Len(r.items) : ItemQty(r.items[k]) >= 1)
       => /\ \A p \in ProductIds : inv'[p].stock <= inv[p].stock
          /\ \A o \in orders' : o.total_amount >= 0
          /\ \A r \in order_items' : r.qty_packs >= 1
      ]_vars


\* C29: empty order: create_order for an allowed city with an empty or missing
\* items list does not go on to the customer lookup; it returns the
\* empty-list string at once and writes nothing: no customer is created, no
\* order exists for it and the inventory is unchanged.
C29_EmptyOrder ==
    [][\A t \in Turns :
          /\ (pc[t] = "dispatch" /\ pc'[t] \in {"co_insert_customer", "co_products"})
                => frame'[t].call.items # <<>>
          /\ (/\ pc[t] = "dispatch"
              /\ pc'[t] = "returned"
              /\ frame'[t].call.name = "create_order"
              /\ CityAllowed(frame'[t].call.city)
              /\ frame'[t].call.items = <<>>)
                => /\ frame'[t].result = Result("empty")
                   /\ <<inv, customers, orders, order_items>>' =
                         <<inv, customers, orders, order_items>>
                   /\ <<custSeq, orderSeq, lock, txInv, requests>>' =
                         <<custSeq, orderSeq, lock, txInv, requests>>
      ]_vars

\* a create_order with no items has returned the empty-list string, and the
\* store is as it was at the start
C29_Witness ==
    \E t \in Turns :
        /\ pc[t] = "returned"
        /\ frame[t].call.name = "create_order"
        /\ CityAllowed(frame[t].call.city)
        /\ frame[t].call.items = <<>>
        /\ frame[t].result.kind = "empty"
        /\ customers = {} /\ orders = {} /\ order_items = {}
        /\ \A p \in ProductIds : inv[p] = [stock |-> InitStock[p], reserved |-> 0]


(***************************************************************************)
(* The admin bot.                                                          *)
(***************************************************************************)
\* the points at which a handler of the admin bot is about to generate SQL,
\* to execute SQL, or to write the uploaded prompt
Working == {"gen", "exec", "download"}

\* C28 as stated: SQL generation, SQL execution and the prompt upload happen
\* for a user only while that user is in the authenticated set.
C28_OnlyWhileAuthenticated ==
    [][\A a \in Updates :
          (upd[a].pc \in Working /\ upd'[a].pc \in {"exec", "executed", "uploaded"})
              => upd[a].user \in authenticated_users
      ]_vars

\* C28: admin authentication gate: a handler goes on to SQL generation, SQL
\* execution, the schema or the prompt upload only for a user who is in the
\* authenticated set when the handler starts on the message; a message that
\* was gated, ignored or used as the password is never worked on afterwards;
\* a user enters the set only by a message handled while the user is not in
\* it whose text, stripped, is non-empty and equals the password; and when
\* /logout has been handled the user is out of the set, so gated again.
C28_AdminGate ==
    [][\A a \in Updates :
          /\ (upd[a].pc = "none"
              /\ upd'[a].pc \in Working \cup {"shown", "rejected"})
                => upd'[a].user \in authenticated_users
          /\ upd[a].pc \notin Working \cup {"none"} => upd'[a] = upd[a]
          /\ (upd'[a] # upd[a] /\ upd'[a].pc \in {"executed", "uploaded"})
                => upd[a].pc \in Working
          /\ \A u \in authenticated_users' \ authenticated_users :
                \E b \in Updates :
                    /\ upd[b].pc = "none"
                    /\ upd'[b].pc = "authenticated"
                    /\ upd'[b].user = u
                    /\ Strip(upd'[b].text) = Password
                    /\ Strip(upd'[b].text) # <<>>
          /\ (upd[a].pc = "none" /\ upd'[a].pc = "authenticated")
                => upd'[a].user \notin authenticated_users
          /\ (upd[a].pc = "none" /\ upd'[a].pc \in {"logged_out", "not_authorized"})
                => upd'[a].user \notin authenticated_users'
          /\ agent_prompt' # agent_prompt
                => \E b \in Updates : upd[b].pc = "download"
      ]_vars

\* one user sent the password, then a query that was executed, then /logout,
\* then the same query, which was refused
C28_Witness ==
    \E u \in Users :
        /\ upd[1] = [user |-> u, text |-> Password, doc |-> "",
                     pc |-> "authenticated"]
        /\ upd[2] = [user |-> u, text |-> Query, doc |-> "", pc |-> "executed"]
        /\ upd[3] = [user |-> u, text |-> CmdLogout, doc |-> "",
                     pc |-> "logged_out"]
        /\ upd[4] = [user |-> u, text |-> Query, doc |-> "", pc |-> "gated"]
        /\ u \notin authenticated_users

=============================================================================
